---- MODULE Spec2Model ----
(***************************************************************************)
(* World of Bits (D3.c iteration of src/main.ts, lines 31-562): the cell   *)
(* state store (_cellStateMap), the rendered cells (visibleCells), the     *)
(* player (playerCellPosition, playerInventory) and the status text, with  *)
(* one action per event handler: the map's "moveend", the four movement    *)
(* buttons and a click on a rendered cell.                                 *)
(***************************************************************************)
EXTENDS Integers, FiniteSets, Sequences, TLC

\* ------------------------------------------------------------------ bounds
\* The player stays in the cells with 0 <= i, 0 <= j and i + j <= MaxPos.
MaxPos == 1
\* The south-west corner of the visible bounds reported by the map lies in a
\* cell with i in -1..MaxViewI and j one of the ViewsJ values from -1 on, and
\* the north-east corner ViewSpan cells further on both axes.
MaxViewI == 3
ViewsJ == 1
ViewSpan == 1
\* Number of luck functions the initial state chooses from.
NumSeeds == 2
\* Number of button presses in a walk.
MaxPresses == 5

\* --------------------------------------------------------- program constants
INTERACTION_RANGE == 3
TARGET_VALUE == 16
padding == 2
\* SPAWN_CHANCE = 0.2, luck values and SPAWN_CHANCE in thousandths
SPAWN_CHANCE == 200
\* fillOpacity in tenths: 0.2 (picked up) and 0.7
OpacityDim == 2
OpacityFull == 7
\* playerInventory = null (no token held); token values are >= 0
Null == -1

NearColor == "#ffffff"
MidColor == "#4a9eff"
FarColor == "#ff4a4a"

VARIABLES
    luckSeed,            \* which luck function this run uses (never changes)
    playerCellPosition,  \* [i, j]
    playerInventory,     \* Null or the held token's value
    cellStateMap,        \* _cellStateMap: key -> [tokenValue, isPickedUp]
    visibleCells,        \* visibleCells: key -> GameCell
    statusText,          \* statusDiv.textContent, by its parts
    touched,             \* history: keys getCellTokenValue was called with
    modified,            \* history: key -> the click branch that last changed the cell
    lastEvent            \* history: the handler that ran last, with its inputs

vars == <<luckSeed, playerCellPosition, playerInventory, cellStateMap,
          visibleCells, statusText, touched, modified, lastEvent>>

\* ------------------------------------------------------------ small helpers
Abs(n) == IF n < 0 THEN -n ELSE n
Max(a, b) == IF a >= b THEN a ELSE b

RECURSIVE Pow2(_)
Pow2(n) == IF n = 0 THEN 1 ELSE 2 * Pow2(n - 1)

CellId(i, j) == [i |-> i, j |-> j]

\* ------------------------------------------------- keys: `${i},${j}` strings
DigitChars == <<"0", "1", "2", "3", "4", "5", "6", "7", "8", "9">>

RECURSIVE NatToString(_)
NatToString(n) ==
    IF n < 10 THEN <<DigitChars[n + 1]>>
    ELSE NatToString(n \div 10) \o <<DigitChars[(n % 10) + 1]>>

\* Number.prototype.toString for an integer
NumberToString(n) == IF n < 0 THEN <<"-">> \o NatToString(-n) ELSE NatToString(n)

\* _getCellStateKey / getCellKey: the two are the same template literal
getCellStateKey(cellId) == NumberToString(cellId.i) \o <<",">> \o NumberToString(cellId.j)
getCellKey(cellId) == NumberToString(cellId.i) \o <<",">> \o NumberToString(cellId.j)

DigitValue(ch) == (CHOOSE d \in 1..10 : DigitChars[d] = ch) - 1

RECURSIVE DigitsToNat(_)
DigitsToNat(s) ==
    IF Len(s) = 0 THEN 0
    ELSE 10 * DigitsToNat(SubSeq(s, 1, Len(s) - 1)) + DigitValue(s[Len(s)])

\* Number(str) for the strings the keys hold (an optional sign, then digits)
StringToNumber(s) ==
    IF Len(s) > 0 /\ s[1] = "-" THEN 0 - DigitsToNat(SubSeq(s, 2, Len(s)))
    ELSE DigitsToNat(s)

\* cellKey.split(",").map(Number), destructured as [i, j]
SplitKey(cellKey) ==
    LET comma == CHOOSE p \in 1..Len(cellKey) : cellKey[p] = ","
    IN  CellId(StringToNumber(SubSeq(cellKey, 1, comma - 1)),
               StringToNumber(SubSeq(cellKey, comma + 1, Len(cellKey))))

\* ------------------------------------------------------------------- luck
\* luck(seed) of src/_luck.ts is an opaque pure hash into [0, 1). Each
\* luckSeed stands for one such function, given in thousandths (0..999) by
\* the coordinates where it is not 999: <<i, j, luck "spawn", luck "value">>.
\* EndgameSeed is a world of eight cells that generate 4: two near the start
\* and six far to the north.
EndgameSeed == 0

LuckTable(seed) ==
    IF seed = EndgameSeed
    THEN {<<2, 0, 100, 700>>, <<2, 1, 100, 700>>, <<20, 0, 100, 700>>,
          <<21, 0, 100, 700>>, <<22, 0, 100, 700>>, <<23, 0, 100, 700>>,
          <<24, 0, 100, 700>>, <<25, 0, 100, 700>>}
    ELSE IF seed = 1
    THEN {<<0 - 3, 0, 0, 333>>, <<0, 1, 199, 0>>, <<6, 0 - 1, 120, 334>>,
          <<1, 1, 200, 100>>}
    ELSE IF seed = 2
    THEN {<<2, 0 - 1, 57, 667>>, <<2, 0, 10, 999>>, <<2, 1, 150, 700>>,
          <<2, 2, 199, 850>>, <<1, 0, 999, 500>>}
    ELSE {<<0 - 2, 2, 5, 400>>, <<1, 1, 180, 666>>, <<4, 0 - 1, 450, 20>>}

LuckEntry(e, tag) == IF tag = "spawn" THEN e[3] ELSE e[4]

Luck(seed, i, j, tag) ==
    IF \E e \in LuckTable(seed) : e[1] = i /\ e[2] = j
    THEN LuckEntry(CHOOSE e \in LuckTable(seed) : e[1] = i /\ e[2] = j, tag)
    ELSE 999

luck(i, j, tag) == Luck(luckSeed, i, j, tag)

\* ------------------------------------------------------ pure functions
getCellColor(distance) ==
    IF distance <= 2 THEN NearColor
    ELSE IF distance <= 5 THEN MidColor
    ELSE FarColor

\* Math.max(Math.abs(i - player.i), Math.abs(j - player.j))
Distance(cellId, pos) == Max(Abs(cellId.i - pos.i), Abs(cellId.j - pos.j))

isInRange(cellI, cellJ, pos) ==
    /\ Abs(cellI - pos.i) <= INTERACTION_RANGE
    /\ Abs(cellJ - pos.j) <= INTERACTION_RANGE

\* Math.pow(2, Math.floor(luck([i, j, "value"].toString()) * 3))
GeneratedValue(cellId) == Pow2((luck(cellId.i, cellId.j, "value") * 3) \div 1000)

\* Mutant: a cell whose luck equals SPAWN_CHANCE spawns too
SpawnsAtChance(cellId) == luck(cellId.i, cellId.j, "spawn") <= SPAWN_CHANCE

\* luck([i, j, "spawn"].toString()) < SPAWN_CHANCE
Spawns(cellId) == luck(cellId.i, cellId.j, "spawn") < SPAWN_CHANCE

\* Map.set
MapSet(m, k, v) == [x \in (DOMAIN m) \cup {k} |-> IF x = k THEN v ELSE m[x]]
\* Map.delete
MapDelete(m, k) == [x \in (DOMAIN m) \ {k} |-> m[x]]
EmptyMap == [x \in {} |-> 0]

\* The state of a cell as first saved: { id, tokenValue }. isPickedUp is
\* left undefined there; only its truthiness is ever read, so FALSE.
NewCellState(cellId, value) == [id |-> cellId, tokenValue |-> value, isPickedUp |-> FALSE]

\* Mutant: the generated value is returned but never saved
getCellTokenValueUnsaved(map, cellId) ==
    LET cellKey == getCellStateKey(cellId)
    IN  IF cellKey \in DOMAIN map
        THEN [value |-> IF map[cellKey].isPickedUp THEN 0 ELSE map[cellKey].tokenValue,
              map |-> map]
        ELSE [value |-> GeneratedValue(cellId), map |-> map]

\* Mutant: an entry whose token was picked up is generated afresh
getCellTokenValueRegenerates(map, cellId) ==
    LET cellKey == getCellStateKey(cellId)
    IN  IF cellKey \in DOMAIN map /\ ~map[cellKey].isPickedUp
        THEN [value |-> map[cellKey].tokenValue, map |-> map]
        ELSE [value |-> GeneratedValue(cellId),
              map |-> MapSet(map, cellKey, NewCellState(cellId, GeneratedValue(cellId)))]

\* Mutant: reading an entry also clears its isPickedUp flag
getCellTokenValueClearsFlag(map, cellId) ==
    LET cellKey == getCellStateKey(cellId)
    IN  IF cellKey \in DOMAIN map
        THEN [value |-> IF map[cellKey].isPickedUp THEN 0 ELSE map[cellKey].tokenValue,
              map |-> [map EXCEPT ![cellKey].isPickedUp = FALSE]]
        ELSE [value |-> GeneratedValue(cellId),
              map |-> MapSet(map, cellKey, NewCellState(cellId, GeneratedValue(cellId)))]

\* getCellTokenValue: the value returned and the state map afterwards
getCellTokenValue(map, cellId) ==
    LET cellKey == getCellStateKey(cellId)
    IN  IF cellKey \in DOMAIN map
        THEN [value |-> IF map[cellKey].isPickedUp THEN 0 ELSE map[cellKey].tokenValue,
              map |-> map]
        ELSE [value |-> GeneratedValue(cellId),
              map |-> MapSet(map, cellKey, NewCellState(cellId, GeneratedValue(cellId)))]

\* ------------------------------------------------------------ visual cells
\* A token label: null, or a marker showing html, on the map or removed.
NullMarker == [isNull |-> TRUE, html |-> 0, onMap |-> FALSE]
Marker(html) == [isNull |-> FALSE, html |-> html, onMap |-> TRUE]
\* if (cell.tokenLabel) cell.tokenLabel.remove(): the field keeps the marker
RemoveLabel(label) == IF label.isNull THEN label ELSE [label EXCEPT !.onMap = FALSE]

\* The rectangle createCell builds for a spawning cell whose value is tokenValue
NewGameCell(cellId, pos, tokenValue) ==
    [tokenValue |-> tokenValue,
     tokenLabel |-> IF tokenValue > 0 THEN Marker(tokenValue) ELSE NullMarker,
     fillOpacity |-> IF tokenValue = 0 THEN OpacityDim ELSE OpacityFull,
     fillColor |-> getCellColor(Distance(cellId, pos)),
     interactive |-> TRUE]

NoCell == [tokenValue |-> 0, tokenLabel |-> NullMarker, fillOpacity |-> 0,
           fillColor |-> "", interactive |-> FALSE]

\* Mutant: the cell is built from the looked-up value but the entry saved by
\* the lookup is lost
createCellDropsEntry(map, pos, cellId) ==
    IF ~Spawns(cellId)
    THEN [spawned |-> FALSE, cell |-> NoCell, map |-> map, lookups |-> {}]
    ELSE [spawned |-> TRUE,
          cell |-> NewGameCell(cellId, pos, getCellTokenValue(map, cellId).value),
          map |-> map,
          lookups |-> {getCellStateKey(cellId)}]

\* createCell: null (spawned = FALSE) or the new cell, the state map afterwards
\* and the keys getCellTokenValue was called with
createCell(map, pos, cellId) ==
    IF ~Spawns(cellId)
    THEN [spawned |-> FALSE, cell |-> NoCell, map |-> map, lookups |-> {}]
    ELSE LET got == getCellTokenValue(map, cellId)
         IN  [spawned |-> TRUE,
              cell |-> NewGameCell(cellId, pos, got.value),
              map |-> got.map,
              lookups |-> {getCellStateKey(cellId)}]

\* Mutant: the rectangle is removed from the map but stays in visibleCells
despawnCellKeepsEntry(visible, cellKey) == visible

despawnCell(visible, cellKey) ==
    IF cellKey \in DOMAIN visible THEN MapDelete(visible, cellKey) ELSE visible

\* Mutant: the inventory is tested for truthiness, so a held 0 reads as none
updateStatusFalsy(inventory, map, visible) ==
    [mainStatus |-> IF inventory = Null \/ inventory = 0 THEN "No token in inventory"
                    ELSE IF inventory >= TARGET_VALUE THEN "You won!"
                    ELSE "Holding token with value",
     value |-> inventory,
     modified |-> Cardinality(DOMAIN map),
     visible |-> Cardinality(DOMAIN visible)]

\* Mutant: the win needs more than TARGET_VALUE
updateStatusStrict(inventory, map, visible) ==
    [mainStatus |-> IF inventory = Null THEN "No token in inventory"
                    ELSE IF inventory > TARGET_VALUE THEN "You won!"
                    ELSE "Holding token with value",
     value |-> inventory,
     modified |-> Cardinality(DOMAIN map),
     visible |-> Cardinality(DOMAIN visible)]

\* updateStatus: the parts of statusDiv.textContent
updateStatus(inventory, map, visible) ==
    [mainStatus |-> IF inventory = Null THEN "No token in inventory"
                    ELSE IF inventory >= TARGET_VALUE THEN "You won!"
                    ELSE "Holding token with value",
     value |-> inventory,
     modified |-> Cardinality(DOMAIN map),
     visible |-> Cardinality(DOMAIN visible)]

\* ----------------------------------------------------------- moveend handler
\* Mutant: a cell that has a state map entry already is not rendered again
spawnAtUnknownOnly(st, cellKey, r) ==
    IF cellKey \in DOMAIN st.visible \/ ~r.spawned \/ cellKey \in DOMAIN st.map THEN st
    ELSE [visible |-> MapSet(st.visible, cellKey, r.cell),
          map |-> r.map,
          lookups |-> st.lookups \cup r.lookups]

\* The body of the spawn loops at cellId, over st = [visible, map, lookups],
\* given r = createCell(st.map, pos, cellId)
spawnAt(st, cellKey, r) ==
    IF cellKey \in DOMAIN st.visible \/ ~r.spawned THEN st
    ELSE [visible |-> MapSet(st.visible, cellKey, r.cell),
          map |-> r.map,
          lookups |-> st.lookups \cup r.lookups]

\* The loop body over the cells of ids in turn. A pass changes only its own
\* cell's entries, so the order of the passes does not matter.
RECURSIVE spawnEach(_, _, _)
spawnEach(st, pos, ids) ==
    IF ids = {} THEN st
    ELSE LET cellId == CHOOSE c \in ids : TRUE
         IN  spawnEach(spawnAt(st, getCellKey(cellId), createCell(st.map, pos, cellId)),
                       pos, ids \ {cellId})

\* The two nested spawn loops, i from minI..maxI and j from minJ..maxJ: the
\* passes for cells that are rendered already, or for which createCell
\* returns null, change nothing; the others run in spawnEach.
spawnLoop(minI, maxI, minJ, maxJ, pos, st) ==
    spawnEach(st, pos,
        {cellId \in {CellId(i, j) : i \in minI..maxI, j \in minJ..maxJ} :
            /\ createCell(st.map, pos, cellId).spawned
            /\ getCellKey(cellId) \notin DOMAIN st.visible})

\* The keys of rendered cells outside minI..maxI x minJ..maxJ
cellsToRemove(visible, minI, maxI, minJ, maxJ) ==
    {cellKey \in DOMAIN visible :
        LET c == SplitKey(cellKey)
        IN  c.i < minI \/ c.i > maxI \/ c.j < minJ \/ c.j > maxJ}

\* cellsToRemove.forEach((cellKey) => despawnCell(cellKey))
RECURSIVE despawnAll(_, _)
despawnAll(visible, keys) ==
    IF keys = {} THEN visible
    ELSE despawnAll(despawnCell(visible, CHOOSE x \in keys : TRUE),
                    keys \ {CHOOSE x \in keys : TRUE})

\* The handler, for visible bounds whose corners lie in cells sw and ne
despawnLoop(st, minI, maxI, minJ, maxJ) ==
    [st EXCEPT !.visible = despawnAll(st.visible,
                               cellsToRemove(st.visible, minI, maxI, minJ, maxJ))]

moveend(visible, map, pos, sw, ne) ==
    despawnLoop(
        spawnLoop(sw.i - padding, ne.i + padding, sw.j - padding, ne.j + padding, pos,
                  [visible |-> visible, map |-> map, lookups |-> {}]),
        sw.i - padding, ne.i + padding, sw.j - padding, ne.j + padding)

\* ------------------------------------------------------------- movePlayer
\* Mutant: the cells keep the colour they were created with
updateCellColorsStale(visible, pos) == visible

\* updateCellColors
updateCellColors(visible, pos) ==
    [cellKey \in DOMAIN visible |->
        [visible[cellKey] EXCEPT
            !.fillColor = getCellColor(Distance(SplitKey(cellKey), pos))]]

\* Mutant: the cells out of range are dropped from visibleCells
updateCellInteractivityDrops(visible, pos) ==
    [cellKey \in {k \in DOMAIN visible : isInRange(SplitKey(k).i, SplitKey(k).j, pos)} |->
        [visible[cellKey] EXCEPT !.interactive = TRUE]]

\* updateCellInteractivity
updateCellInteractivity(visible, pos) ==
    [cellKey \in DOMAIN visible |->
        [visible[cellKey] EXCEPT
            !.interactive = isInRange(SplitKey(cellKey).i, SplitKey(cellKey).j, pos)]]

\* _testCellStatePersistence: it only logs, but it calls getCellTokenValue for
\* every rendered cell; the state map afterwards
RECURSIVE testCellStatePersistence(_, _)
testCellStatePersistence(map, keys) ==
    IF keys = {} THEN map
    ELSE testCellStatePersistence(
             getCellTokenValue(map, SplitKey(CHOOSE x \in keys : TRUE)).map,
             keys \ {CHOOSE x \in keys : TRUE})

\* ------------------------------------------------------------ click handler
\* Pick-up branch, the visual cell (lines 266-270)
pickUpCell(cell) ==
    [cell EXCEPT !.tokenLabel = RemoveLabel(cell.tokenLabel),
                 !.tokenValue = 0,
                 !.fillOpacity = OpacityDim]

\* Mutant: the pick-up is not recorded in the state map
markPickedUpForgets(map, cellKey) == map

\* Mutant: the pick-up also zeroes the stored value
markPickedUpZeroes(map, cellKey) ==
    IF cellKey \in DOMAIN map
    THEN [map EXCEPT ![cellKey].isPickedUp = TRUE, ![cellKey].tokenValue = 0]
    ELSE map

\* Pick-up branch, the state map (lines 274-277)
markPickedUp(map, cellKey) ==
    IF cellKey \in DOMAIN map
    THEN [map EXCEPT ![cellKey].isPickedUp = TRUE]
    ELSE map

\* Combine branch, the visual cell (lines 282-296)
combineCell(cell, newValue) ==
    [cell EXCEPT !.tokenValue = newValue,
                 !.tokenLabel = Marker(newValue),
                 !.fillOpacity = OpacityFull]

\* Mutant: the combined value is not written to the state map
persistCombinedKeepsValue(map, cellKey, newValue) ==
    IF cellKey \in DOMAIN map
    THEN [map EXCEPT ![cellKey].isPickedUp = FALSE]
    ELSE map

\* Combine branch, the state map (lines 300-304)
persistCombined(map, cellKey, newValue) ==
    IF cellKey \in DOMAIN map
    THEN [map EXCEPT ![cellKey].tokenValue = newValue, ![cellKey].isPickedUp = FALSE]
    ELSE map

\* Mutant: a held token combines with any cell holding at least as much
clickBranchAtMost(inventory, cell) ==
    IF inventory = Null THEN "pickup"
    ELSE IF inventory <= cell.tokenValue THEN "combine"
    ELSE "ignored"

\* Mutant: a held token is swapped for a different token on the cell
clickBranchSwaps(inventory, cell) ==
    IF inventory = Null \/ (cell.tokenValue > 0 /\ inventory # cell.tokenValue)
    THEN "pickup"
    ELSE IF inventory = cell.tokenValue THEN "combine"
    ELSE "ignored"

\* Which branch of the handler a click takes
clickBranch(inventory, cell) ==
    IF inventory = Null THEN "pickup"
    ELSE IF inventory = cell.tokenValue THEN "combine"
    ELSE "ignored"

\* Mutant: a combine leaves the held token in the inventory
onClickKeepsToken(inventory, map, cell, cellId) ==
    LET cellKey == getCellStateKey(cellId)
    IN  IF clickBranch(inventory, cell) = "pickup"
        THEN [inventory |-> cell.tokenValue,
              cell |-> pickUpCell(cell),
              map |-> markPickedUp(map, cellKey)]
        ELSE IF clickBranch(inventory, cell) = "combine"
        THEN [inventory |-> inventory,
              cell |-> combineCell(cell, inventory * 2),
              map |-> persistCombined(map, cellKey, inventory * 2)]
        ELSE [inventory |-> inventory, cell |-> cell, map |-> map]

\* The handler up to updateStatus(): inventory, cell and state map afterwards
onClick(inventory, map, cell, cellId) ==
    LET cellKey == getCellStateKey(cellId)
    IN  IF clickBranch(inventory, cell) = "pickup"
        THEN [inventory |-> cell.tokenValue,
              cell |-> pickUpCell(cell),
              map |-> markPickedUp(map, cellKey)]
        ELSE IF clickBranch(inventory, cell) = "combine"
        THEN [inventory |-> Null,
              cell |-> combineCell(cell, inventory * 2),
              map |-> persistCombined(map, cellKey, inventory * 2)]
        ELSE [inventory |-> inventory, cell |-> cell, map |-> map]

\* ------------------------------------------------------------------ inputs
\* Visible bounds: the cells of the south-west and north-east corners
View(swI, swJ) == [sw |-> CellId(swI, swJ), ne |-> CellId(swI + ViewSpan, swJ + ViewSpan)]
Views == {View(swI, swJ) : swI \in (0 - 1)..MaxViewI, swJ \in (0 - 1)..(ViewsJ - 2)}
\* The map starts centred on CLASSROOM_LOCATION, the south-west corner of cell
\* (0,0): its bounds start in a cell < 0 and end in a cell >= 0 on both axes
InitViews == {v \in Views : v.sw.i < 0 /\ v.sw.j < 0 /\ v.ne.i >= 0 /\ v.ne.j >= 0}
\* The movement buttons and the movePlayer(directionI, directionJ) each calls
Buttons == {"north", "south", "west", "east"}

\* Mutant: the buttons of the two axes are exchanged
ButtonDirectionTurned(b) ==
    IF b = "north" THEN <<0, 1>>
    ELSE IF b = "south" THEN <<0, 0 - 1>>
    ELSE IF b = "west" THEN <<0 - 1, 0>>
    ELSE <<1, 0>>

ButtonDirection(b) ==
    IF b = "north" THEN <<1, 0>>
    ELSE IF b = "south" THEN <<0 - 1, 0>>
    ELSE IF b = "west" THEN <<0, 0 - 1>>
    ELSE <<0, 1>>

Directions == {ButtonDirection(b) : b \in Buttons}
Positions == {pos \in [i : 0..MaxPos, j : 0..MaxPos] : pos.i + pos.j <= MaxPos}

\* lastEvent: the handler that ran last; for a click, the clicked key and
\* playerInventory, the visual cell and the cell's state map entry as the
\* handler found them
NoKey == <<>>
NoEntry == [id |-> CellId(0, 0), tokenValue |-> 0, isPickedUp |-> FALSE]
Event(kind) == [kind |-> kind, key |-> NoKey, held |-> Null, cell |-> NoCell,
                entry |-> NoEntry, walk |-> <<>>]
ClickEvent(kind, key, held, cell, map) ==
    [kind |-> kind, key |-> key, held |-> held, cell |-> cell,
     entry |-> IF key \in DOMAIN map THEN map[key] ELSE NoEntry, walk |-> <<>>]
\* In a walk (buttons only), lastEvent.walk is the buttons pressed so far
WalkEvent(walk) == [Event("move") EXCEPT !.walk = walk]

\* ------------------------------------------------------------ specification
\* The state once the script has run: updateStatus() on the empty maps (line
\* 559), then map.fire("moveend") renders the initial cells (line 562).
Init ==
    /\ luckSeed \in 1..NumSeeds
    /\ playerCellPosition = CellId(0, 0)
    /\ playerInventory = Null
    /\ statusText = updateStatus(Null, EmptyMap, EmptyMap)
    /\ \E v \in InitViews :
         \E r \in {moveend(EmptyMap, EmptyMap, CellId(0, 0), v.sw, v.ne)} :
             /\ visibleCells = r.visible
             /\ cellStateMap = r.map
             /\ touched = r.lookups
    /\ modified = EmptyMap
    /\ lastEvent = Event("init")

\* The map reports new visible bounds (pan, zoom, or the recentring that
\* movePlayer asked for)
MoveEnd(v) ==
    \E r \in {moveend(visibleCells, cellStateMap, playerCellPosition, v.sw, v.ne)} :
        /\ visibleCells' = r.visible
        /\ cellStateMap' = r.map
        /\ touched' = touched \cup r.lookups
        /\ lastEvent' = Event("moveend")
        /\ UNCHANGED <<luckSeed, playerCellPosition, playerInventory, statusText,
                       modified>>

\* movePlayer(directionI, directionJ), d = <<directionI, directionJ>>
movePlayer(d) ==
    LET pos == CellId(playerCellPosition.i + d[1], playerCellPosition.j + d[2])
    IN  /\ playerCellPosition' = pos
        /\ visibleCells' = updateCellInteractivity(updateCellColors(visibleCells, pos), pos)
        /\ cellStateMap' = testCellStatePersistence(cellStateMap, DOMAIN visibleCells)
        /\ touched' = touched \cup DOMAIN visibleCells
        /\ UNCHANGED <<luckSeed, playerInventory, statusText, modified>>

\* A movement button, while the player stays within Positions
MovePlayer(d) ==
    /\ CellId(playerCellPosition.i + d[1], playerCellPosition.j + d[2]) \in Positions
    /\ movePlayer(d)
    /\ lastEvent' = Event("move")

\* A click on the rendered cell with key cellKey
Click(cellKey) ==
    /\ cellKey \in DOMAIN visibleCells
    /\ \E r \in {onClick(playerInventory, cellStateMap, visibleCells[cellKey],
                         SplitKey(cellKey))} :
           /\ playerInventory' = r.inventory
           /\ cellStateMap' = r.map
           /\ visibleCells' = [visibleCells EXCEPT ![cellKey] = r.cell]
           /\ statusText' = updateStatus(r.inventory, r.map,
                                         [visibleCells EXCEPT ![cellKey] = r.cell])
           /\ lastEvent' = ClickEvent(clickBranch(playerInventory, visibleCells[cellKey]),
                                      cellKey, playerInventory, visibleCells[cellKey],
                                      cellStateMap)
    /\ modified' = IF clickBranch(playerInventory, visibleCells[cellKey]) = "ignored"
                   THEN modified
                   ELSE MapSet(modified, cellKey,
                               clickBranch(playerInventory, visibleCells[cellKey]))
    /\ UNCHANGED <<luckSeed, playerCellPosition, touched>>

Next ==
    \/ \E v \in Views : MoveEnd(v)
    \/ \E d \in Directions : MovePlayer(d)
    \/ \E cellKey \in DOMAIN visibleCells : Click(cellKey)

Spec == Init /\ [][Next]_vars

\* -------------------------------------------------------------------- a walk
\* The player only walks: up to MaxPresses presses of the movement buttons
\* from the initial state, recorded in lastEvent.walk.
Press(b) ==
    /\ Len(lastEvent.walk) < MaxPresses
    /\ movePlayer(ButtonDirection(b))
    /\ lastEvent' = WalkEvent(Append(lastEvent.walk, b))

NextWalk == \E b \in Buttons : Press(b)

SpecWalk == Init /\ [][NextWalk]_vars

\* ------------------------------------------------------------ late in a game
\* A state of a game in the EndgameSeed world: the player has carried the six
\* far tokens together onto the two near cells (4+4 on (21,0), 4+4 on (2,0),
\* 8+8 on (2,0); the same with (23,0), (24,0), (25,0) onto (2,1)), has come
\* back to cell (0,0) with an empty inventory, and the map has rendered the
\* near cells anew. The status text is that of the last click, the combine
\* on (2,1) with both near cells rendered.
PickedUpState(cellId, value) == [id |-> cellId, tokenValue |-> value, isPickedUp |-> TRUE]

EndgameMap ==
    LET far == {<<20, 4>>, <<21, 8>>, <<22, 4>>, <<23, 4>>, <<24, 8>>, <<25, 4>>}
        near == {CellId(2, 0), CellId(2, 1)}
    IN  [cellKey \in {getCellStateKey(CellId(f[1], 0)) : f \in far}
                      \cup {getCellStateKey(c) : c \in near} |->
            IF SplitKey(cellKey) \in near
            THEN NewCellState(SplitKey(cellKey), TARGET_VALUE)
            ELSE PickedUpState(SplitKey(cellKey),
                               (CHOOSE f \in far : f[1] = SplitKey(cellKey).i)[2])]

InitEndgame ==
    /\ luckSeed = EndgameSeed
    /\ playerCellPosition = CellId(0, 0)
    /\ playerInventory = Null
    /\ cellStateMap = EndgameMap
    /\ \E v \in InitViews :
         \E r \in {moveend(EmptyMap, EndgameMap, CellId(0, 0), v.sw, v.ne)} :
             /\ visibleCells = r.visible
             /\ statusText = updateStatus(Null, EndgameMap, r.visible)
    /\ touched = DOMAIN EndgameMap
    /\ modified = [cellKey \in DOMAIN EndgameMap |->
                      IF EndgameMap[cellKey].isPickedUp THEN "pickup" ELSE "combine"]
    /\ lastEvent = Event("moveend")

SpecEndgame == InitEndgame /\ [][Next]_vars

\* ------------------------------------------------------------------ claims
\* What getCellTokenValue reports for a state map entry
EffectiveValue(entry) == IF entry.isPickedUp THEN 0 ELSE entry.tokenValue
IsClick(e) == e.kind \in {"pickup", "combine", "ignored"}

\* C1 (as claimed): a cell that moveend renders anew after it was picked up
\* shows value 0, no label and opacity 0.2; one that was combined shows the
\* combined value with a label on the map; neither shows the generator value.
C1_MementoRestoration ==
    [][\A k \in (DOMAIN visibleCells') \ (DOMAIN visibleCells) :
        k \in DOMAIN modified =>
            /\ visibleCells'[k].tokenValue = EffectiveValue(cellStateMap[k])
            /\ modified[k] = "pickup" =>
                 /\ visibleCells'[k].tokenValue = 0
                 /\ visibleCells'[k].tokenLabel.isNull
                 /\ visibleCells'[k].fillOpacity = OpacityDim
            /\ modified[k] = "combine" =>
                 /\ visibleCells'[k].tokenValue = cellStateMap[k].tokenValue
                 /\ visibleCells'[k].tokenLabel = Marker(cellStateMap[k].tokenValue)
            /\ visibleCells'[k].tokenValue # GeneratedValue(SplitKey(k))]_vars

\* C2: every rendered cell's tokenValue is what getCellTokenValue returns
\* for its coordinate (the comparison _testCellStatePersistence makes).
C2_VisualMatchesStore ==
    \A k \in DOMAIN visibleCells :
        visibleCells[k].tokenValue = getCellTokenValue(cellStateMap, SplitKey(k)).value

C2_Witness ==
    /\ lastEvent.kind = "moveend"
    /\ \E k \in DOMAIN visibleCells :
         cellStateMap[k].isPickedUp /\ cellStateMap[k].tokenValue > 0
    /\ \E k \in DOMAIN visibleCells :
         ~cellStateMap[k].isPickedUp
         /\ cellStateMap[k].tokenValue > GeneratedValue(SplitKey(k))

\* C3: after a click made holding v on a cell whose effective value is v, the
\* inventory is empty, the cell's entry holds 2v and is not picked up, and the
\* visual cell shows 2v (value and label) at opacity 0.7.
C3_Combine ==
    (/\ IsClick(lastEvent)
     /\ lastEvent.held # Null
     /\ lastEvent.held = EffectiveValue(lastEvent.entry))
    => /\ playerInventory = Null
       /\ cellStateMap[lastEvent.key].tokenValue = 2 * lastEvent.held
       /\ ~cellStateMap[lastEvent.key].isPickedUp
       /\ visibleCells[lastEvent.key].tokenValue = 2 * lastEvent.held
       /\ visibleCells[lastEvent.key].tokenLabel = Marker(2 * lastEvent.held)
       /\ visibleCells[lastEvent.key].fillOpacity = OpacityFull

C3_Witness ==
    /\ IsClick(lastEvent)
    /\ lastEvent.held = 2
    /\ EffectiveValue(lastEvent.entry) = 2
    /\ cellStateMap[lastEvent.key].tokenValue = 4

\* C4: after a click made with an empty inventory on a cell whose effective
\* value is v > 0, the inventory holds v, the entry is picked up with its
\* tokenValue as before, and the cell's effective and displayed value is 0.
C4_PickUp ==
    (/\ IsClick(lastEvent)
     /\ lastEvent.held = Null
     /\ EffectiveValue(lastEvent.entry) > 0)
    => /\ playerInventory = EffectiveValue(lastEvent.entry)
       /\ cellStateMap[lastEvent.key].isPickedUp
       /\ cellStateMap[lastEvent.key].tokenValue = lastEvent.entry.tokenValue
       /\ EffectiveValue(cellStateMap[lastEvent.key]) = 0
       /\ visibleCells[lastEvent.key].tokenValue = 0

C4_Witness ==
    /\ IsClick(lastEvent)
    /\ lastEvent.held = Null
    /\ EffectiveValue(lastEvent.entry) = 2
    /\ playerInventory = 2
    /\ lastEvent.entry.tokenValue # GeneratedValue(SplitKey(lastEvent.key))

\* C5 (as claimed): a click made with an empty inventory on a cell whose
\* effective value is 0 changes nothing: the inventory stays empty, the entry
\* and the visual cell stay as they were.
C5_EmptyClickIsNoOp ==
    (/\ IsClick(lastEvent)
     /\ lastEvent.held = Null
     /\ EffectiveValue(lastEvent.entry) = 0)
    => /\ playerInventory = Null
       /\ cellStateMap[lastEvent.key] = lastEvent.entry
       /\ visibleCells[lastEvent.key] = lastEvent.cell

\* C6: a click made holding a token whose value differs from the cell's
\* effective value leaves the inventory, the cell's entry and the visual cell
\* as they were.
C6_MismatchIsNoOp ==
    (/\ IsClick(lastEvent)
     /\ lastEvent.held # Null
     /\ lastEvent.held # EffectiveValue(lastEvent.entry))
    => /\ playerInventory = lastEvent.held
       /\ cellStateMap[lastEvent.key] = lastEvent.entry
       /\ visibleCells[lastEvent.key] = lastEvent.cell

C6_Witness ==
    /\ IsClick(lastEvent)
    /\ lastEvent.held = 1
    /\ EffectiveValue(lastEvent.entry) = 2

\* C7: the state map's keys are exactly the keys getCellTokenValue has been
\* called with, so its size is the number of distinct coordinates looked up,
\* whatever is rendered now.
C7_FlyweightBound ==
    /\ DOMAIN cellStateMap = touched
    /\ Cardinality(DOMAIN cellStateMap) = Cardinality(touched)

C7_Witness ==
    /\ lastEvent.kind = "move"
    /\ DOMAIN visibleCells # {}
    /\ touched \ DOMAIN visibleCells # {}
    /\ Cardinality(DOMAIN cellStateMap) = 3

\* C8 (as claimed): only a cell changed by a pick-up or a combine has an
\* entry in the state map.
C8_OnlyModifiedStored ==
    \A k \in DOMAIN cellStateMap : k \in DOMAIN modified

\* C9: no step removes an entry of the state map, and an entry changes only in
\* the pick-up or combine it is clicked for; a moveend that despawns cells
\* (and a move) leaves every entry as it was.
C9_DespawnKeepsStore ==
    [][\A k \in DOMAIN cellStateMap :
        /\ k \in DOMAIN cellStateMap'
        /\ \/ cellStateMap'[k] = cellStateMap[k]
           \/ /\ lastEvent'.kind \in {"pickup", "combine"}
              /\ lastEvent'.key = k]_vars

C9_Witness ==
    /\ lastEvent.kind = "moveend"
    /\ \E k \in (DOMAIN cellStateMap) \ (DOMAIN visibleCells) :
         cellStateMap[k].isPickedUp
    /\ \E k \in (DOMAIN cellStateMap) \ (DOMAIN visibleCells) :
         k \in DOMAIN modified /\ modified[k] = "combine"

\* C10 (as claimed): after a combine made holding 8 on a cell of effective
\* value 8, the inventory holds at least 16 and the status shows the win.
C10_CombineWins ==
    (/\ IsClick(lastEvent)
     /\ lastEvent.held = 8
     /\ EffectiveValue(lastEvent.entry) = 8)
    => /\ playerInventory # Null
       /\ playerInventory >= TARGET_VALUE
       /\ statusText.mainStatus = "You won!"

\* C10 (amended): after that combine the inventory is empty, the cell holds
\* 16 and the status shows no token; the status shows the win after the click
\* that picks a token of at least 16 up.
C10_WinAfterPickUp ==
    /\ (/\ IsClick(lastEvent)
        /\ lastEvent.held = 8
        /\ EffectiveValue(lastEvent.entry) = 8)
       => /\ playerInventory = Null
          /\ visibleCells[lastEvent.key].tokenValue = TARGET_VALUE
          /\ EffectiveValue(cellStateMap[lastEvent.key]) = TARGET_VALUE
          /\ statusText.mainStatus = "No token in inventory"
    /\ (/\ IsClick(lastEvent)
        /\ lastEvent.held = Null
        /\ EffectiveValue(lastEvent.entry) >= TARGET_VALUE)
       => /\ playerInventory = EffectiveValue(lastEvent.entry)
          /\ statusText.mainStatus = "You won!"
          /\ statusText.value = playerInventory

C10_Witness ==
    /\ IsClick(lastEvent)
    /\ lastEvent.held = Null
    /\ EffectiveValue(lastEvent.entry) = TARGET_VALUE
    /\ playerInventory = TARGET_VALUE
    /\ modified[lastEvent.key] = "pickup"

\* The branch the click rules give for a click made holding held on a cell
\* whose entry is entry
RuleBranch(held, entry) ==
    IF held = Null THEN "pickup"
    ELSE IF held = EffectiveValue(entry) THEN "combine"
    ELSE "ignored"

\* C11: after every click the status shows the win exactly when a token of at
\* least TARGET_VALUE is held, "No token in inventory" exactly when none is
\* held, and the held value otherwise; a click made while the win shows still
\* takes the branch the click rules give, with the combine's effect.
C11_StatusAfterClick ==
    IsClick(lastEvent) =>
        /\ statusText.mainStatus = "You won!"
              <=> (playerInventory # Null /\ playerInventory >= TARGET_VALUE)
        /\ statusText.mainStatus = "No token in inventory" <=> playerInventory = Null
        /\ statusText.mainStatus = "Holding token with value"
              <=> (playerInventory # Null /\ playerInventory < TARGET_VALUE)
        /\ playerInventory # Null => statusText.value = playerInventory
        /\ lastEvent.kind = RuleBranch(lastEvent.held, lastEvent.entry)
        /\ (lastEvent.held >= TARGET_VALUE /\ lastEvent.kind = "combine") =>
              /\ playerInventory = Null
              /\ visibleCells[lastEvent.key].tokenValue = 2 * lastEvent.held
              /\ cellStateMap[lastEvent.key].tokenValue = 2 * lastEvent.held
        /\ (lastEvent.kind = "pickup" /\ EffectiveValue(lastEvent.entry) > TARGET_VALUE) =>
              playerInventory = EffectiveValue(lastEvent.entry)

\* A pick-up of the 32 that a combine made in the win state left on a cell
C11_Witness ==
    /\ lastEvent.kind = "pickup"
    /\ EffectiveValue(lastEvent.entry) = 2 * TARGET_VALUE
    /\ playerInventory = 2 * TARGET_VALUE
    /\ statusText.mainStatus = "You won!"

\* C12 (as claimed): a rendered cell's interactive flag is set only if the
\* cell is within INTERACTION_RANGE (Chebyshev distance) of the player.
C12_InteractiveOnlyInRange ==
    \A k \in DOMAIN visibleCells :
        visibleCells[k].interactive =>
            Distance(SplitKey(k), playerCellPosition) <= INTERACTION_RANGE

RECURSIVE IsPowerOfTwo(_)
IsPowerOfTwo(n) == n = 1 \/ (n > 1 /\ n % 2 = 0 /\ IsPowerOfTwo(n \div 2))

\* C13 (as claimed): playerInventory is null or a power of two >= 1, never 0.
C13_HeldIsPowerOfTwo ==
    playerInventory = Null \/ IsPowerOfTwo(playerInventory)

\* C14 (as claimed): every state map entry's tokenValue is a power of two
\* >= 1, never 0.
C14_StoredIsPowerOfTwo ==
    \A k \in DOMAIN cellStateMap : IsPowerOfTwo(cellStateMap[k].tokenValue)

\* The keys of the cells of the padded range of visible bounds v that spawn
PaddedRange(v) ==
    {CellId(i, j) : i \in (v.sw.i - padding)..(v.ne.i + padding),
                    j \in (v.sw.j - padding)..(v.ne.j + padding)}
SpawningKeys(v) == {getCellKey(cellId) : cellId \in {c \in PaddedRange(v) : Spawns(c)}}

\* C15: when a moveend handler has run for visible bounds v (the initial one
\* included), the rendered cells are exactly the cells of the padded range of
\* v whose spawn luck is below SPAWN_CHANCE.
C15_RenderedIsSpawnSet ==
    /\ \E v \in InitViews : DOMAIN visibleCells = SpawningKeys(v)
    /\ [][lastEvent'.kind = "moveend" =>
            \A v \in Views :
                DOMAIN visibleCells' = SpawningKeys(v) \/ ~MoveEnd(v)]_vars

\* A moveend has rendered anew a cell that was picked up and despawned, while
\* another cell looked up earlier lies outside the range
C15_Witness ==
    /\ lastEvent.kind = "moveend"
    /\ \E k \in DOMAIN visibleCells :
         /\ k \in DOMAIN modified
         /\ modified[k] = "pickup"
         /\ visibleCells[k].tokenLabel.isNull
    /\ touched \ DOMAIN visibleCells # {}

\* The cells inside the visible bounds v themselves
UnpaddedRange(v) == {CellId(i, j) : i \in v.sw.i..v.ne.i, j \in v.sw.j..v.ne.j}

\* C16 (as claimed): when a moveend handler has run for visible bounds v, no
\* rendered cell lies outside v.
C16_NoneOutsideBounds ==
    [][lastEvent'.kind = "moveend" =>
         \A v \in Views :
            \/ \A k \in DOMAIN visibleCells' : SplitKey(k) \in UnpaddedRange(v)
            \/ ~MoveEnd(v)]_vars

\* C16 (amended): when a moveend handler has run for visible bounds v, no
\* rendered cell lies outside the padded range of v; cells between v and the
\* padded range stay rendered.
C16_NoneOutsidePaddedRange ==
    [][lastEvent'.kind = "moveend" =>
         \A v \in Views :
            \/ /\ \A k \in DOMAIN visibleCells' : SplitKey(k) \in PaddedRange(v)
               /\ \A k \in DOMAIN visibleCells :
                      SplitKey(k) \in PaddedRange(v) => k \in DOMAIN visibleCells'
            \/ ~MoveEnd(v)]_vars

\* A moveend has despawned a cell and left rendered one that lies outside
\* every visible bounds the map reports
C16_Witness ==
    /\ lastEvent.kind = "moveend"
    /\ \E k \in touched : k \notin DOMAIN visibleCells
    /\ \E k \in DOMAIN visibleCells :
         \A v \in Views : SplitKey(k) \notin UnpaddedRange(v)

\* C17: a movePlayer step moves the player by one cell and changes nothing
\* but the rendered cells' colours and interactive flags: the rendered keys,
\* the state map, the inventory and the status stay; the rendered keys
\* change in moveend steps only.
C17_MoveFrame ==
    [][/\ lastEvent'.kind = "move" =>
            /\ <<playerCellPosition'.i - playerCellPosition.i,
                 playerCellPosition'.j - playerCellPosition.j>> \in Directions
            /\ DOMAIN visibleCells' = DOMAIN visibleCells
            /\ \A k \in DOMAIN visibleCells :
                   [visibleCells'[k] EXCEPT !.fillColor = visibleCells[k].fillColor,
                                            !.interactive = visibleCells[k].interactive]
                     = visibleCells[k]
            /\ cellStateMap' = cellStateMap
            /\ playerInventory' = playerInventory
            /\ statusText' = statusText
       /\ DOMAIN visibleCells' # DOMAIN visibleCells => lastEvent'.kind = "moveend"]_vars

\* A move made holding a token has left a rendered cell out of range, in the
\* middle colour, and a modified cell despawned
C17_Witness ==
    /\ lastEvent.kind = "move"
    /\ playerInventory # Null
    /\ \E k \in DOMAIN visibleCells :
         ~visibleCells[k].interactive /\ visibleCells[k].fillColor = MidColor
    /\ DOMAIN modified \ DOMAIN visibleCells # {}

\* C18: every rendered cell has the near colour if its Chebyshev distance d to
\* the player is <= 2, the middle colour if 2 < d <= 5, the far colour
\* otherwise.
C18_ColourByDistance ==
    \A k \in DOMAIN visibleCells :
        LET d == Max(Abs(SplitKey(k).i - playerCellPosition.i),
                     Abs(SplitKey(k).j - playerCellPosition.j))
        IN  /\ d <= 2 => visibleCells[k].fillColor = NearColor
            /\ (2 < d /\ d <= 5) => visibleCells[k].fillColor = MidColor
            /\ d > 5 => visibleCells[k].fillColor = FarColor

\* A move away from the start has left a rendered cell in the far colour
C18_Witness ==
    /\ lastEvent.kind = "move"
    /\ playerCellPosition # CellId(0, 0)
    /\ \E k \in DOMAIN visibleCells : visibleCells[k].fillColor = FarColor

\* The coordinates a lookup is tried for: those of every padded range
LookupCells == UNION {PaddedRange(v) : v \in Views}

\* C19: for every coordinate c, a lookup of c absent from the state map
\* returns 2^floor(luck * 3), one of 1, 2, 4, and inserts that value, not
\* picked up; a lookup of c present returns the entry's effective value and
\* leaves the state map as it is; a second lookup returns what the first did
\* and changes nothing.
C19_LookupIdempotent ==
    \A c \in LookupCells :
        LET first == getCellTokenValue(cellStateMap, c)
            second == getCellTokenValue(first.map, c)
            cellKey == getCellStateKey(c)
        IN  /\ cellKey \notin DOMAIN cellStateMap =>
                  /\ first.value = Pow2((luck(c.i, c.j, "value") * 3) \div 1000)
                  /\ first.value \in {1, 2, 4}
                  /\ DOMAIN first.map = DOMAIN cellStateMap \cup {cellKey}
                  /\ first.map[cellKey] = [id |-> c, tokenValue |-> first.value,
                                           isPickedUp |-> FALSE]
                  /\ \A k \in DOMAIN cellStateMap : first.map[k] = cellStateMap[k]
            /\ cellKey \in DOMAIN cellStateMap =>
                  /\ first.value = EffectiveValue(cellStateMap[cellKey])
                  /\ first.map = cellStateMap
            /\ second.value = first.value
            /\ second.map = first.map

\* The state map holds a picked-up entry, a combined one, and lacks the entry
\* of a cell that spawns
C19_Witness ==
    /\ \E k \in DOMAIN cellStateMap : cellStateMap[k].isPickedUp
    /\ \E k \in DOMAIN cellStateMap :
         ~cellStateMap[k].isPickedUp
         /\ cellStateMap[k].tokenValue > GeneratedValue(SplitKey(k))
    /\ \E c \in LookupCells : Spawns(c) /\ getCellStateKey(c) \notin DOMAIN cellStateMap

\* C20 (as claimed): when the self-test of a move runs, every rendered cell
\* has a non-null tokenLabel exactly when its tokenValue is > 0.
C20_LabelIffToken ==
    lastEvent.kind = "move" =>
        \A k \in DOMAIN visibleCells :
            ~visibleCells[k].tokenLabel.isNull <=> visibleCells[k].tokenValue > 0

\* C21 (as claimed): when the self-test of a move runs, every rendered cell's
\* fill opacity is 0.2 if its tokenValue is 0 and 0.7 otherwise.
C21_OpacityByToken ==
    lastEvent.kind = "move" =>
        \A k \in DOMAIN visibleCells :
            visibleCells[k].fillOpacity =
                IF visibleCells[k].tokenValue = 0 THEN OpacityDim ELSE OpacityFull

\* C22 (as claimed): the counts of the status text are the size of the state
\* map and the number of rendered cells.
C22_StatusCounts ==
    /\ statusText.modified = Cardinality(DOMAIN cellStateMap)
    /\ statusText.visible = Cardinality(DOMAIN visibleCells)

\* C23: a held token is never replaced: while playerInventory is not null a
\* step leaves it as it is or, in a combine, sets it to null; a pick-up is
\* made from an empty inventory only.
C23_SingleToken ==
    [][/\ playerInventory # Null =>
            \/ playerInventory' = playerInventory
            \/ playerInventory' = Null /\ lastEvent'.kind = "combine"
       /\ (IsClick(lastEvent') /\ lastEvent'.kind = "pickup") =>
            playerInventory = Null]_vars

\* A click made holding a token on a cell with a different token was ignored
C23_Witness ==
    /\ lastEvent.kind = "ignored"
    /\ lastEvent.cell.tokenValue > 0
    /\ lastEvent.cell.tokenValue # lastEvent.held
    /\ playerInventory = lastEvent.held

\* C24: every rendered cell has a state map entry, so the pick-up or combine
\* of a click always finds the entry it writes to.
C24_RenderedHasEntry ==
    /\ \A k \in DOMAIN visibleCells : getCellStateKey(SplitKey(k)) \in DOMAIN cellStateMap
    /\ lastEvent.kind = "pickup" => cellStateMap[lastEvent.key].isPickedUp
    /\ lastEvent.kind = "combine" =>
          /\ ~cellStateMap[lastEvent.key].isPickedUp
          /\ cellStateMap[lastEvent.key].tokenValue = 2 * lastEvent.held

\* A pick-up from a cell that a later moveend rendered, with entries of
\* despawned cells in the state map
C24_Witness ==
    /\ lastEvent.kind = "pickup"
    /\ lastEvent.cell.tokenLabel = Marker(2)
    /\ lastEvent.entry.tokenValue = 2
    /\ cellStateMap[lastEvent.key].isPickedUp
    /\ Cardinality(DOMAIN visibleCells) < Cardinality(DOMAIN cellStateMap)

\* How often button b occurs in walk
Presses(walk, b) == Cardinality({n \in 1..Len(walk) : walk[n] = b})

\* C25 (as claimed): two presses of east and then three of north from (0,0)
\* leave the player at i = 2, j = 3; every press moves one axis-aligned step.
C25_EastNorthAsClaimed ==
    /\ lastEvent.walk = <<"east", "east", "north", "north", "north">> =>
          playerCellPosition = [i |-> 2, j |-> 3]
    /\ Abs(playerCellPosition.i) + Abs(playerCellPosition.j) <= Len(lastEvent.walk)

\* C25 (amended): north and south change i, east and west change j, each by
\* one per press, so two presses of east and then three of north from (0,0)
\* leave the player at i = 3, j = 2.
C25_EastNorth ==
    /\ playerCellPosition.i = Presses(lastEvent.walk, "north") - Presses(lastEvent.walk, "south")
    /\ playerCellPosition.j = Presses(lastEvent.walk, "east") - Presses(lastEvent.walk, "west")
    /\ lastEvent.walk = <<"east", "east", "north", "north", "north">> =>
          playerCellPosition = [i |-> 3, j |-> 2]

C25_Witness ==
    /\ lastEvent.walk = <<"east", "east", "north", "north", "north">>
    /\ playerCellPosition = [i |-> 3, j |-> 2]

\* The sum of f over the set S
RECURSIVE SumOver(_, _)
SumOver(f, S) ==
    IF S = {} THEN 0
    ELSE LET c == CHOOSE x \in S : TRUE
         IN  f[c] + SumOver(f, S \ {c})

\* The token value at coordinate c: the generator value without an entry, 0
\* if picked up, the stored tokenValue otherwise
ValueAt(c) ==
    IF getCellStateKey(c) \notin DOMAIN cellStateMap
    THEN Pow2((luck(c.i, c.j, "value") * 3) \div 1000)
    ELSE IF cellStateMap[getCellStateKey(c)].isPickedUp THEN 0
    ELSE cellStateMap[getCellStateKey(c)].tokenValue

\* The held value and the values at the cells of S make up the generator
\* values of S
Conserved(S) ==
    (IF playerInventory = Null THEN 0 ELSE playerInventory)
      + SumOver([c \in S |-> ValueAt(c)], S)
    = SumOver([c \in S |-> Pow2((luck(c.i, c.j, "value") * 3) \div 1000)], S)

\* C26: the held value (0 when none) plus the token values at the
\* coordinates of a set equals the sum of their generator values, for the
\* coordinates of every padded range, for those with a state map entry and
\* for those a pick-up or combine has changed.
C26_ValueConserved ==
    /\ Conserved(LookupCells)
    /\ Conserved({SplitKey(k) : k \in DOMAIN cellStateMap})
    /\ Conserved({SplitKey(k) : k \in DOMAIN modified})

\* A token is held while one cell holds a combined token and another is
\* picked up
C26_Witness ==
    /\ playerInventory # Null
    /\ playerInventory > 0
    /\ \E k \in DOMAIN cellStateMap :
         ~cellStateMap[k].isPickedUp
         /\ cellStateMap[k].tokenValue = 8
    /\ \E k \in DOMAIN cellStateMap :
         cellStateMap[k].isPickedUp /\ cellStateMap[k].tokenValue = playerInventory

\* C27: every key of the state map is a coordinate whose spawn luck is below
\* SPAWN_CHANCE, and an entry records id, tokenValue and isPickedUp only.
C27_KeysSpawn ==
    \A k \in DOMAIN cellStateMap :
        /\ luck(SplitKey(k).i, SplitKey(k).j, "spawn") < SPAWN_CHANCE
        /\ DOMAIN cellStateMap[k] = {"id", "tokenValue", "isPickedUp"}
        /\ cellStateMap[k].id = SplitKey(k)

\* Moveends and a move have passed over a cell whose spawn luck is exactly
\* SPAWN_CHANCE, and the state map holds the three cells that spawn
C27_Witness ==
    /\ lastEvent.kind = "move"
    /\ Cardinality(DOMAIN cellStateMap) = 3
    /\ \E c \in LookupCells :
         /\ luck(c.i, c.j, "spawn") = SPAWN_CHANCE
         /\ getCellStateKey(c) \notin DOMAIN cellStateMap

====
